---- MODULE Spec2Model ----
(***************************************************************************)
(* FastMeshUpdater (qixotic.tendroids): the stage attachment, the mesh     *)
(* registry and the vertex push to the host attribute store, as a state    *)
(* machine.  One action per public operation; the host (the Python USD     *)
(* stage and its attributes) is an environment whose answers are chosen    *)
(* nondeterministically at every call.                                     *)
(***************************************************************************)
EXTENDS Integers, Sequences, FiniteSets, TLC

\* ------------------------------------------------------------------ bounds
MaxStages == 2      \* distinct stage objects a caller can pass
MaxPaths  == 2      \* distinct mesh paths
MaxRows   == 2      \* rows (shape[0]) of a vertex array
MaxVpm    == 2      \* vertices_per_mesh of a batch update
MaxKVerts == 4      \* vertices in a buffer handed to the kernel
MaxCalls  == 2      \* kernel calls between two resets
FrameCalls == 1     \* the same, where the kernel runs beside the registry
FMax      == 2      \* largest finite float (FLT_MAX, scaled down)
SizeBits  == 3      \* width of size_t (64 in the build, scaled down so that
                    \* the counters can reach their wrap)

None   == 0                       \* py::none()
Stages == 1..MaxStages
Paths  == 1..MaxPaths

\* A numpy array is its shape; row r of the array is identified by r, so the
\* data of an array with n rows is <<1, ..., n>>.
Shapes == {<<n>> : n \in 0..MaxRows}
          \cup {<<n, c>> : n \in 0..MaxRows, c \in {2, 3}}
          \cup {<<n, 3, 1>> : n \in 0..MaxRows}

Rows(n) == [r \in 1..n |-> r]

\* ------------------------------------------------------------------- state
VARIABLES
    stage_,           \* py::object stage_            (None or a stage)
    stage_attached_,  \* bool stage_attached_
    mesh_points_,     \* unordered_map path -> cached points attribute
    total_calls_,     \* size_t total_calls_
    total_vertices_,  \* size_t total_vertices_
    total_time_ms_,   \* double total_time_ms_, in clock ticks
    sinceCalls,       \* history: kernel calls made since the last reset
    sinceVerts,       \* history: vertices they processed, as a true sum
    kin,              \* history: the arguments of the kernel call
    kout,             \* history: the output buffer after the kernel call
    stats,            \* history: the PerfStats returned by get_stats
    regOrder,         \* history: paths in order of first registration
    op,               \* the caller: "idle" between calls, else the operation
                      \* that has just returned to it
    arg,              \* history: its arguments
    env,              \* history: what the host answered during it
    ret,              \* history: its boolean result
    retCount,         \* history: its size_t result
    thrown,           \* history: it left by throwing instead of returning
    pre,              \* history: the object's fields before it ran
    writes            \* history: the host writes it issued, in order

vars == <<stage_, stage_attached_, mesh_points_, regOrder,
          total_calls_, total_vertices_, total_time_ms_, sinceCalls, sinceVerts,
          op, arg, env, ret, retCount, thrown, pre, writes, kin, kout, stats>>

Self == [stage_ |-> stage_, stage_attached_ |-> stage_attached_,
         mesh_points_ |-> mesh_points_,
         total_calls_ |-> total_calls_, total_vertices_ |-> total_vertices_,
         total_time_ms_ |-> total_time_ms_]

\* The empty unordered_map.
EmptyMap == [p \in {} |-> <<None, None>>]

\* The points attribute the host resolves for a path on a stage.
PointsAttr(stage, mesh_path) == <<stage, mesh_path>>

NoArg == [stage |-> None, path |-> 0, shape |-> <<>>, vpm |-> 0]
NoEnv == [reg |-> "", upd |-> "", set |-> "", order |-> <<>>, failing |-> {}]

\* --------------------------------------------------------------- attachment
\* attach_stage that refuses to replace a stage already attached.
attach_stage_needs_detach(self, stage) ==
    IF stage = None \/ self.stage_attached_
    THEN [self |-> self, ret |-> FALSE]
    ELSE [self |-> [self EXCEPT !.stage_ = stage, !.stage_attached_ = TRUE],
          ret |-> TRUE]

attach_stage(self, stage) ==
    IF stage = None
    THEN [self |-> self, ret |-> FALSE]
    ELSE [self |-> [self EXCEPT !.stage_ = stage, !.stage_attached_ = TRUE],
          ret |-> TRUE]

is_stage_attached(self) == self.stage_attached_ /\ self.stage_ # None

get_mesh_count(self) == Cardinality(DOMAIN self.mesh_points_)

\* ------------------------------------------------------------ register_mesh
\* What the host does while a path is resolved.
RegisterHost == {"ok", "raise_import", "raise_resolve", "prim_invalid",
                 "raise_points", "attr_invalid"}

MapPut(m, k, v) == [x \in DOMAIN m \cup {k} |-> IF x = k THEN v ELSE m[x]]

\* register_mesh that caches the attribute before testing its validity.
register_mesh_early_insert(self, mesh_path, h) ==
    IF ~self.stage_attached_ \/ self.stage_ = None
    THEN [self |-> self, ret |-> FALSE]
    ELSE IF h \in {"raise_import", "raise_resolve", "prim_invalid", "raise_points"}
    THEN [self |-> self, ret |-> FALSE]
    ELSE [self |-> [self EXCEPT !.mesh_points_ =
                       MapPut(@, mesh_path, PointsAttr(self.stage_, mesh_path))],
          ret |-> (h # "attr_invalid")]

\* register_mesh without the test of the attachment.
register_mesh_no_guard(self, mesh_path, h) ==
    IF h # "ok"
    THEN [self |-> self, ret |-> FALSE]
    ELSE [self |-> [self EXCEPT !.mesh_points_ =
                       MapPut(@, mesh_path, PointsAttr(self.stage_, mesh_path))],
          ret |-> TRUE]

\* register_mesh that keeps the entry of a path already registered
\* (emplace in place of operator[]).
register_mesh_emplace(self, mesh_path, h) ==
    IF ~self.stage_attached_ \/ self.stage_ = None
    THEN [self |-> self, ret |-> FALSE]
    ELSE IF h # "ok"
    THEN [self |-> self, ret |-> FALSE]
    ELSE IF mesh_path \in DOMAIN self.mesh_points_
    THEN [self |-> self, ret |-> TRUE]
    ELSE [self |-> [self EXCEPT !.mesh_points_ =
                       MapPut(@, mesh_path, PointsAttr(self.stage_, mesh_path))],
          ret |-> TRUE]

register_mesh(self, mesh_path, h) ==
    IF ~self.stage_attached_ \/ self.stage_ = None
    THEN [self |-> self, ret |-> FALSE]
    ELSE IF h \in {"raise_import", "raise_resolve"}
    THEN [self |-> self, ret |-> FALSE]
    ELSE IF h = "prim_invalid"
    THEN [self |-> self, ret |-> FALSE]
    ELSE IF h = "raise_points"
    THEN [self |-> self, ret |-> FALSE]
    ELSE IF h = "attr_invalid"
    THEN [self |-> self, ret |-> FALSE]
    ELSE [self |-> [self EXCEPT !.mesh_points_ =
                       MapPut(@, mesh_path, PointsAttr(self.stage_, mesh_path))],
          ret |-> TRUE]

\* ----------------------------------------------------- update_mesh_vertices
\* What the host does while the array is converted to a Vt.Vec3fArray:
\*   "ok"             FromBuffer works
\*   "raise_import"   importing pxr.Vt raises
\*   "fallback"       FromBuffer raises, the list constructor works
\*   "raise_fallback" FromBuffer raises and so does the list constructor
UpdateHost == {"ok", "raise_import", "fallback", "raise_fallback"}

\* What the host attribute's Set() does: it returns True, returns False
\* (the write was rejected), or raises.
SetHost == {"ok", "false", "raise"}

HostWrite(handle, data, outcome) ==
    [handle |-> handle, data |-> data, outcome |-> outcome]

\* update_mesh_vertices with the result of the lookup inverted.
update_mesh_vertices_unchecked(self, mesh_path, shape, hu, hs) ==
    IF mesh_path \notin DOMAIN self.mesh_points_
    THEN [ret |-> TRUE, writes |-> <<>>]
    ELSE [ret |-> FALSE, writes |-> <<>>]

\* update_mesh_vertices that tests the shape only after the write.
update_mesh_vertices_late_shape(self, mesh_path, shape, hu, hs) ==
    IF mesh_path \notin DOMAIN self.mesh_points_
    THEN [ret |-> FALSE, writes |-> <<>>]
    ELSE IF hu \in {"raise_import", "raise_fallback"}
    THEN [ret |-> FALSE, writes |-> <<>>]
    ELSE LET w == HostWrite(self.mesh_points_[mesh_path], Rows(shape[1]), hs) IN
         IF hs = "raise" \/ Len(shape) # 2 \/ shape[2] # 3
         THEN [ret |-> FALSE, writes |-> <<w>>]
         ELSE [ret |-> TRUE, writes |-> <<w>>]

update_mesh_vertices(self, mesh_path, shape, hu, hs) ==
    IF mesh_path \notin DOMAIN self.mesh_points_
    THEN [ret |-> FALSE, writes |-> <<>>]
    ELSE IF Len(shape) # 2 \/ shape[2] # 3
    THEN [ret |-> FALSE, writes |-> <<>>]
    ELSE IF hu = "raise_import"
    THEN [ret |-> FALSE, writes |-> <<>>]
    ELSE IF hu = "raise_fallback"
    THEN [ret |-> FALSE, writes |-> <<>>]
    ELSE LET w == HostWrite(self.mesh_points_[mesh_path], Rows(shape[1]), hs) IN
         IF hs = "raise"
         THEN [ret |-> FALSE, writes |-> <<w>>]
         ELSE [ret |-> TRUE, writes |-> <<w>>]

\* ------------------------------------------- the pointer-based sync engine
\* update_mesh_vertices(path, ptr, count), batch_update_vertices and
\* clear_meshes are called by the bindings; their bodies follow the design
\* document (section 4.2).
update_one(self, mesh_path, vertex_count, hs) ==
    IF mesh_path \notin DOMAIN self.mesh_points_
    THEN [ret |-> FALSE, writes |-> <<>>]
    ELSE [ret |-> (hs = "ok"),
          writes |-> <<HostWrite(self.mesh_points_[mesh_path],
                                 Rows(vertex_count), hs)>>]

\* The loop leaving at the first write the host rejects.
RECURSIVE BatchLoop_abort(_, _, _, _, _, _)
BatchLoop_abort(self, order, i, total_vertices, vertices_per_mesh, failing) ==
    IF i > Len(order) \/ i * vertices_per_mesh > total_vertices
    THEN [count |-> 0, writes |-> <<>>]
    ELSE LET ok   == order[i] \notin failing
             w    == HostWrite(self.mesh_points_[order[i]],
                               SubSeq(Rows(total_vertices),
                                      (i - 1) * vertices_per_mesh + 1,
                                      i * vertices_per_mesh),
                               IF ok THEN "ok" ELSE "false")
             rest == IF ok
                     THEN BatchLoop_abort(self, order, i + 1, total_vertices,
                                          vertices_per_mesh, failing)
                     ELSE [count |-> 0, writes |-> <<>>]
         IN [count |-> rest.count + (IF ok THEN 1 ELSE 0),
             writes |-> <<w>> \o rest.writes]

\* The loop of batch_update_vertices from mesh index i (1-based) on, over the
\* registry in the order its container iterates.
RECURSIVE BatchLoop(_, _, _, _, _, _)
BatchLoop(self, order, i, total_vertices, vertices_per_mesh, failing) ==
    IF i > Len(order)
    THEN [count |-> 0, writes |-> <<>>]
    ELSE IF i * vertices_per_mesh > total_vertices
    THEN [count |-> 0, writes |-> <<>>]
    ELSE LET ok   == order[i] \notin failing
             w    == HostWrite(self.mesh_points_[order[i]],
                               SubSeq(Rows(total_vertices),
                                      (i - 1) * vertices_per_mesh + 1,
                                      i * vertices_per_mesh),
                               IF ok THEN "ok" ELSE "false")
             rest == BatchLoop(self, order, i + 1, total_vertices,
                               vertices_per_mesh, failing)
         IN [count |-> rest.count + (IF ok THEN 1 ELSE 0),
             writes |-> <<w>> \o rest.writes]

batch_update_vertices(self, order, total_vertices, vertices_per_mesh, failing) ==
    BatchLoop(self, order, 1, total_vertices, vertices_per_mesh, failing)

clear_meshes(self) == [self EXCEPT !.mesh_points_ = EmptyMap]

\* The orders in which an unordered_map holding the keys S can iterate.
IterationOrders(S) ==
    {s \in [1..Cardinality(S) -> S] :
        \A i, j \in 1..Cardinality(S) : i # j => s[i] # s[j]}

\* The shape test of the bindings' lambdas.
bind_shape_ok(shape) == ~(Len(shape) # 2 \/ shape[2] # 3)

\* ------------------------------------------------------------------ floats
\* A float is a finite value -FMax..FMax, an infinity or NaN.  Products and
\* sums past FMax overflow to an infinity as in IEEE 754; rounding is left out.
PInf == FMax + 1
NInf == 0 - PInf
NaN  == FMax + 2
\* An element of an output buffer that no call has written.
Unwritten == 0 - NaN

Finite == (0 - FMax)..FMax

IsInf(a) == a = PInf \/ a = NInf

FRound(v) == IF v > FMax THEN PInf ELSE IF v < 0 - FMax THEN NInf ELSE v

FMul(a, b) ==
    IF a = NaN \/ b = NaN THEN NaN
    ELSE IF (IsInf(a) /\ b = 0) \/ (a = 0 /\ IsInf(b)) THEN NaN
    ELSE FRound(a * b)

FAdd(a, b) ==
    IF a = NaN \/ b = NaN THEN NaN
    ELSE IF (a = PInf /\ b = NInf) \/ (a = NInf /\ b = PInf) THEN NaN
    ELSE IF IsInf(a) THEN a
    ELSE IF IsInf(b) THEN b
    ELSE FRound(a + b)

\* std::sin with the phase counted in quarter turns; NaN for an infinite or
\* NaN argument.
FSin(a) ==
    IF a = NaN \/ IsInf(a) THEN NaN
    ELSE <<0, 1, 0, 0 - 1>>[(a % 4) + 1]

\* size_t arithmetic.
SizeMod == 2 ^ SizeBits
Wrap(n) == n % SizeMod

\* ------------------------------------------------------------------ kernel
\* The three stores of one loop body, for the vertex whose x is at idx (0-based).
\* The loop body with the scale applied to all three components.
DeformAt_scales_y(base, out, idx, P) ==
    LET x == base[idx + 1]
        y == base[idx + 2]
        z == base[idx + 3]
        wave_phase == FAdd(FMul(y, P.frequency), FMul(P.time, P.wave_speed))
        scale == FAdd(1, FMul(P.amplitude, FSin(wave_phase)))
    IN [out EXCEPT ![idx + 1] = FMul(x, scale),
                   ![idx + 2] = FMul(y, scale),
                   ![idx + 3] = FMul(z, scale)]

DeformAt(base, out, idx, P) ==
    LET x == base[idx + 1]
        y == base[idx + 2]
        z == base[idx + 3]
        wave_phase == FAdd(FMul(y, P.frequency), FMul(P.time, P.wave_speed))
        scale == FAdd(1, FMul(P.amplitude, FSin(wave_phase)))
    IN [out EXCEPT ![idx + 1] = FMul(x, scale),
                   ![idx + 2] = y,
                   ![idx + 3] = FMul(z, scale)]

\* The accumulation at the end of both kernels.
CountCall(self, n, duration) ==
    [self EXCEPT !.total_calls_ = Wrap(@ + 1),
                 !.total_vertices_ = Wrap(@ + n),
                 !.total_time_ms_ = @ + duration]

RECURSIVE TubeLoop(_, _, _, _, _)
TubeLoop(base, out, i, vertex_count, P) ==
    IF ~(i < vertex_count)
    THEN out
    ELSE TubeLoop(base, DeformAt(base, out, i * 3, P), i + 1, vertex_count, P)

compute_tube_vertices(self, base, out, vertex_count, P, duration) ==
    [self |-> CountCall(self, vertex_count, duration),
     out  |-> TubeLoop(base, out, 0, vertex_count, P),
     ret  |-> vertex_count]

RECURSIVE BatchVertLoop(_, _, _, _, _, _)
BatchVertLoop(base, out, offset, v, verts_per_tube, P) ==
    IF ~(v < verts_per_tube)
    THEN out
    ELSE BatchVertLoop(base, DeformAt(base, out, offset + v * 3, P), offset,
                       v + 1, verts_per_tube, P)

\* The tube loop with the offset counted in vertices, not in floats.
RECURSIVE BatchTubeLoop_vertex_offset(_, _, _, _, _, _)
BatchTubeLoop_vertex_offset(base, out, tube_idx, num_tubes, verts_per_tube, P) ==
    IF ~(tube_idx < num_tubes)
    THEN out
    ELSE BatchTubeLoop_vertex_offset(base,
                       BatchVertLoop(base, out, tube_idx * verts_per_tube,
                                     0, verts_per_tube, P),
                       tube_idx + 1, num_tubes, verts_per_tube, P)

RECURSIVE BatchTubeLoop(_, _, _, _, _, _)
BatchTubeLoop(base, out, tube_idx, num_tubes, verts_per_tube, P) ==
    IF ~(tube_idx < num_tubes)
    THEN out
    ELSE BatchTubeLoop(base,
                       BatchVertLoop(base, out, tube_idx * verts_per_tube * 3,
                                     0, verts_per_tube, P),
                       tube_idx + 1, num_tubes, verts_per_tube, P)

batch_compute_vertices(self, base, out, num_tubes, verts_per_tube, P, duration) ==
    LET total_verts == Wrap(num_tubes * verts_per_tube) IN
    [self |-> CountCall(self, total_verts, duration),
     out  |-> BatchTubeLoop(base, out, 0, num_tubes, verts_per_tube, P),
     ret  |-> total_verts]

\* avg_time_ms is total_time_ms_ / total_calls_, kept as the pair of the two.
get_stats(self) ==
    [total_calls |-> self.total_calls_,
     total_vertices |-> self.total_vertices_,
     total_time_ms |-> self.total_time_ms_,
     avg_time_ms |-> IF self.total_calls_ > 0
                     THEN <<self.total_time_ms_, self.total_calls_>>
                     ELSE <<0, 1>>]

\* reset_stats that clears the registry with the counters.
reset_stats_clears_all(self) ==
    [self EXCEPT !.total_calls_ = 0, !.total_vertices_ = 0, !.total_time_ms_ = 0,
                 !.mesh_points_ = EmptyMap]

reset_stats(self) ==
    [self EXCEPT !.total_calls_ = 0, !.total_vertices_ = 0, !.total_time_ms_ = 0]

\* The inputs of the kernel: buffers of up to MaxKVerts vertices drawn from
\* two positions, finite wave parameters, and the ticks a call can take.
VertexSet == {<<1, 1, 0 - 1>>, <<0 - 1, FMax, FMax>>}
ParamVals == {0, 1, FMax}
Params    == [time : {0, 1}, wave_speed : {0, 1},
              amplitude : ParamVals, frequency : ParamVals]
Durations == {0, 1}

Flat(vs) == [k \in 1..(3 * Len(vs)) |-> vs[((k - 1) \div 3) + 1][((k - 1) % 3) + 1]]
BuffersOver(Vs, n) == {Flat(vs) : vs \in [1..n -> Vs]}

\* A caller-owned output buffer: room for n vertices and one vertex more.
Blank(n) == [k \in 1..(3 * n + 3) |-> Unwritten]

NoParams == [time |-> 0, wave_speed |-> 0, amplitude |-> 0, frequency |-> 0]
NoKin    == [base |-> <<>>, num_tubes |-> 0, verts_per_tube |-> 0, P |-> NoParams]
NoStats  == [total_calls |-> 0, total_vertices |-> 0, total_time_ms |-> 0,
             avg_time_ms |-> <<0, 1>>]

\* ------------------------------------------------------------------- Init
Init ==
    /\ stage_ = None
    /\ stage_attached_ = FALSE
    /\ mesh_points_ = EmptyMap
    /\ regOrder = <<>>
    /\ op = "idle"
    /\ arg = NoArg
    /\ env = NoEnv
    /\ ret = FALSE
    /\ retCount = 0
    /\ thrown = FALSE
    /\ pre = [stage_ |-> None, stage_attached_ |-> FALSE, mesh_points_ |-> EmptyMap,
              total_calls_ |-> 0, total_vertices_ |-> 0, total_time_ms_ |-> 0]
    /\ writes = <<>>
    /\ total_calls_ = 0
    /\ total_vertices_ = 0
    /\ total_time_ms_ = 0
    /\ sinceCalls = 0
    /\ sinceVerts = 0
    /\ kin = NoKin
    /\ kout = <<>>
    /\ stats = NoStats

\* Record the call in the history variables.
Called(name, a, e, r, n, t, w) ==
    /\ op' = name
    /\ arg' = a
    /\ env' = e
    /\ ret' = r
    /\ retCount' = n
    /\ thrown' = t
    /\ pre' = Self
    /\ writes' = w
    /\ kin' = NoKin
    /\ kout' = <<>>
    /\ stats' = NoStats
    /\ UNCHANGED <<sinceCalls, sinceVerts>>

\* Record a call of the kernel or of the statistics.
CalledKernel(name, k, o, n, st) ==
    /\ op' = name
    /\ arg' = NoArg
    /\ env' = NoEnv
    /\ ret' = FALSE
    /\ retCount' = n
    /\ thrown' = FALSE
    /\ pre' = Self
    /\ writes' = <<>>
    /\ kin' = k
    /\ kout' = o
    /\ stats' = st

Install(self) ==
    /\ stage_' = self.stage_
    /\ stage_attached_' = self.stage_attached_
    /\ mesh_points_' = self.mesh_points_
    /\ total_calls_' = self.total_calls_
    /\ total_vertices_' = self.total_vertices_
    /\ total_time_ms_' = self.total_time_ms_

AttachStage ==
    /\ op = "idle"
    /\ \E stage \in Stages \cup {None} :
        LET r == attach_stage(Self, stage) IN
        /\ Install(r.self)
        /\ UNCHANGED regOrder
        /\ Called("attach_stage", [NoArg EXCEPT !.stage = stage], NoEnv,
                  r.ret, 0, FALSE, <<>>)

IsStageAttached ==
    /\ op = "idle"
    /\ UNCHANGED <<stage_, stage_attached_, mesh_points_, regOrder,
                    total_calls_, total_vertices_, total_time_ms_>>
    /\ Called("is_stage_attached", NoArg, NoEnv, is_stage_attached(Self),
              0, FALSE, <<>>)

GetMeshCount ==
    /\ op = "idle"
    /\ UNCHANGED <<stage_, stage_attached_, mesh_points_, regOrder,
                    total_calls_, total_vertices_, total_time_ms_>>
    /\ Called("get_mesh_count", NoArg, NoEnv, FALSE, get_mesh_count(Self),
              FALSE, <<>>)

RegisterMesh ==
    /\ op = "idle"
    /\ \E mesh_path \in Paths, h \in RegisterHost :
        LET r == register_mesh(Self, mesh_path, h) IN
        /\ Install(r.self)
        /\ regOrder' = IF mesh_path \in DOMAIN r.self.mesh_points_
                          /\ mesh_path \notin DOMAIN mesh_points_
                       THEN Append(regOrder, mesh_path)
                       ELSE regOrder
        /\ Called("register_mesh", [NoArg EXCEPT !.path = mesh_path],
                  [NoEnv EXCEPT !.reg = h], r.ret, 0, FALSE, <<>>)

UpdateMeshVertices ==
    /\ op = "idle"
    /\ \E mesh_path \in Paths, shape \in Shapes, hu \in UpdateHost, hs \in SetHost :
        LET r == update_mesh_vertices(Self, mesh_path, shape, hu, hs) IN
        /\ UNCHANGED <<stage_, stage_attached_, mesh_points_, regOrder,
                    total_calls_, total_vertices_, total_time_ms_>>
        /\ Called("update_mesh_vertices",
                  [NoArg EXCEPT !.path = mesh_path, !.shape = shape],
                  [NoEnv EXCEPT !.upd = hu, !.set = hs],
                  r.ret, 0, FALSE, r.writes)

BindUpdateMeshVertices ==
    /\ op = "idle"
    /\ \E mesh_path \in Paths, shape \in Shapes :
        /\ UNCHANGED <<stage_, stage_attached_, mesh_points_, regOrder,
                    total_calls_, total_vertices_, total_time_ms_>>
        /\ IF ~bind_shape_ok(shape)
           THEN Called("bind_update_mesh_vertices",
                       [NoArg EXCEPT !.path = mesh_path, !.shape = shape],
                       NoEnv, FALSE, 0, TRUE, <<>>)
           ELSE \E hs \in SetHost :
                    LET r == update_one(Self, mesh_path, shape[1], hs) IN
                    Called("bind_update_mesh_vertices",
                           [NoArg EXCEPT !.path = mesh_path, !.shape = shape],
                           [NoEnv EXCEPT !.set = hs],
                           r.ret, 0, FALSE, r.writes)

BindBatchUpdateVertices ==
    /\ op = "idle"
    /\ \E shape \in Shapes, vertices_per_mesh \in 0..MaxVpm :
        /\ UNCHANGED <<stage_, stage_attached_, mesh_points_, regOrder,
                    total_calls_, total_vertices_, total_time_ms_>>
        /\ IF ~bind_shape_ok(shape)
           THEN Called("bind_batch_update_vertices",
                       [NoArg EXCEPT !.shape = shape, !.vpm = vertices_per_mesh],
                       NoEnv, FALSE, 0, TRUE, <<>>)
           ELSE \E order \in IterationOrders(DOMAIN mesh_points_),
                   failing \in SUBSET (DOMAIN mesh_points_) :
                    LET r == batch_update_vertices(Self, order, shape[1],
                                                   vertices_per_mesh, failing) IN
                    Called("bind_batch_update_vertices",
                           [NoArg EXCEPT !.shape = shape, !.vpm = vertices_per_mesh],
                           [NoEnv EXCEPT !.order = order, !.failing = failing],
                           FALSE, r.count, FALSE, r.writes)

ClearMeshes ==
    /\ op = "idle"
    /\ Install(clear_meshes(Self))
    /\ regOrder' = <<>>
    /\ Called("clear_meshes", NoArg, NoEnv, FALSE, 0, FALSE, <<>>)

\* The caller has looked at the result and is ready for its next call.
ReturnToCaller ==
    /\ op # "idle"
    /\ UNCHANGED <<stage_, stage_attached_, mesh_points_, regOrder,
                    total_calls_, total_vertices_, total_time_ms_>>
    /\ op' = "idle"
    /\ arg' = NoArg
    /\ env' = NoEnv
    /\ ret' = FALSE
    /\ retCount' = 0
    /\ thrown' = FALSE
    /\ pre' = Self
    /\ writes' = <<>>
    /\ kin' = NoKin
    /\ kout' = <<>>
    /\ stats' = NoStats
    /\ UNCHANGED <<sinceCalls, sinceVerts>>

\* A kernel call with at most `cap` calls between resets, vertices from Vs,
\* wave parameters from Ps and durations from Ds.
ComputeTubeVerticesOn(cap, Vs, Ps, Ds) ==
    /\ op = "idle"
    /\ sinceCalls < cap
    /\ \E vertex_count \in 0..MaxKVerts, P \in Ps, duration \in Ds :
        \E base \in BuffersOver(Vs, vertex_count) :
            LET r == compute_tube_vertices(Self, base, Blank(vertex_count),
                                           vertex_count, P, duration) IN
            /\ Install(r.self)
            /\ UNCHANGED regOrder
            /\ sinceCalls' = sinceCalls + 1
            /\ sinceVerts' = sinceVerts + vertex_count
            /\ CalledKernel("compute_tube_vertices",
                            [base |-> base, num_tubes |-> 1,
                             verts_per_tube |-> vertex_count, P |-> P],
                            r.out, r.ret, NoStats)

BatchComputeVerticesOn(cap, Vs, Ps, Ds) ==
    /\ op = "idle"
    /\ sinceCalls < cap
    /\ \E num_tubes \in 0..MaxKVerts, verts_per_tube \in 0..MaxKVerts,
          P \in Ps, duration \in Ds :
        /\ num_tubes * verts_per_tube <= MaxKVerts
        /\ \E base \in BuffersOver(Vs, num_tubes * verts_per_tube) :
            LET r == batch_compute_vertices(Self, base,
                                            Blank(num_tubes * verts_per_tube),
                                            num_tubes, verts_per_tube, P,
                                            duration) IN
            /\ Install(r.self)
            /\ UNCHANGED regOrder
            /\ sinceCalls' = sinceCalls + 1
            /\ sinceVerts' = sinceVerts + num_tubes * verts_per_tube
            /\ CalledKernel("batch_compute_vertices",
                            [base |-> base, num_tubes |-> num_tubes,
                             verts_per_tube |-> verts_per_tube, P |-> P],
                            r.out, r.ret, NoStats)

ComputeTubeVertices ==
    ComputeTubeVerticesOn(MaxCalls, VertexSet, Params, Durations)

BatchComputeVertices ==
    BatchComputeVerticesOn(MaxCalls, VertexSet, Params, Durations)

\* The kernel calls of an animation tick: one position, one wave, one tick.
TickParams == [time |-> 1, wave_speed |-> 1, amplitude |-> 1, frequency |-> 1]

ComputeTubeVerticesTick ==
    ComputeTubeVerticesOn(FrameCalls, {<<1, 1, 0 - 1>>}, {TickParams}, {1})

BatchComputeVerticesTick ==
    BatchComputeVerticesOn(FrameCalls, {<<1, 1, 0 - 1>>}, {TickParams}, {1})

GetStats ==
    /\ op = "idle"
    /\ UNCHANGED <<stage_, stage_attached_, mesh_points_, regOrder,
                   total_calls_, total_vertices_, total_time_ms_,
                   sinceCalls, sinceVerts>>
    /\ CalledKernel("get_stats", NoKin, <<>>, 0, get_stats(Self))

ResetStats ==
    /\ op = "idle"
    /\ Install(reset_stats(Self))
    /\ UNCHANGED regOrder
    /\ sinceCalls' = 0
    /\ sinceVerts' = 0
    /\ CalledKernel("reset_stats", NoKin, <<>>, 0, NoStats)

Next ==
    \/ AttachStage
    \/ IsStageAttached
    \/ GetMeshCount
    \/ RegisterMesh
    \/ UpdateMeshVertices
    \/ BindUpdateMeshVertices
    \/ BindBatchUpdateVertices
    \/ ClearMeshes
    \/ ReturnToCaller

Spec == Init /\ [][Next]_vars

\* The deformation kernel and the performance counters.
NextKernel ==
    \/ ComputeTubeVertices
    \/ BatchComputeVertices
    \/ GetStats
    \/ ResetStats
    \/ ReturnToCaller

SpecKernel == Init /\ [][NextKernel]_vars

\* The registry and the kernel side by side.
NextFrame ==
    \/ AttachStage
    \/ IsStageAttached
    \/ GetMeshCount
    \/ RegisterMesh
    \/ UpdateMeshVertices
    \/ ComputeTubeVerticesTick
    \/ BatchComputeVerticesTick
    \/ GetStats
    \/ ResetStats
    \/ ReturnToCaller

SpecFrame == Init /\ [][NextFrame]_vars

\* ================================================================== claims
ShapeIsNx3(shape) == Len(shape) = 2 /\ shape[2] = 3

Count(m) == Cardinality(DOMAIN m)

\* The rows [(i-1)*vpm, i*vpm) of a buffer of `total` rows (mesh index i from 1).
SliceOf(total, vpm, i) ==
    [r \in 1..(IF i * vpm <= total THEN vpm ELSE 0) |-> (i - 1) * vpm + r]

\* C1: update_mesh_vertices returns true only when the identifier was
\* registered, the array is N-by-3 and the host write of the full buffer to that
\* identifier's handle succeeded; otherwise (unknown identifier, wrong shape,
\* host write raised or returned a negative result) it returns false.
C1_UpdateOneReportsWrite ==
    op = "update_mesh_vertices" =>
        LET registered == arg.path \in DOMAIN pre.mesh_points_
            written    == /\ registered
                          /\ ShapeIsNx3(arg.shape)
                          /\ \E i \in 1..Len(writes) :
                                writes[i] = HostWrite(pre.mesh_points_[arg.path],
                                                      Rows(arg.shape[1]), "ok")
        IN ret = written

\* C2: a register_mesh that returns false leaves the registry as it was: no
\* entry added, the count unchanged, a handle cached before is kept.
C2_FailedRegisterKeepsRegistry ==
    (op = "register_mesh" /\ ~ret) =>
        /\ mesh_points_ = pre.mesh_points_
        /\ get_mesh_count(Self) = Count(pre.mesh_points_)

\* C2 witness: the attribute resolved last turned out invalid, for a path whose
\* cached handle came from another stage than the one attached.
C2_Witness ==
    /\ op = "register_mesh"
    /\ ~ret
    /\ env.reg = "attr_invalid"
    /\ pre.stage_attached_
    /\ arg.path \in DOMAIN pre.mesh_points_
    /\ pre.mesh_points_[arg.path] # PointsAttr(pre.stage_, arg.path)

\* C3: register_mesh with no stage attached returns false and leaves the mesh
\* count unchanged, whatever the path and whatever the host would answer.
C3_RegisterBeforeAttachFails ==
    (op = "register_mesh" /\ ~pre.stage_attached_) =>
        /\ ~ret
        /\ get_mesh_count(Self) = Count(pre.mesh_points_)

\* C3 witness: an unattached register_mesh for which the host would have
\* resolved a valid attribute.
C3_Witness ==
    /\ op = "register_mesh"
    /\ ~pre.stage_attached_
    /\ env.reg = "ok"
    /\ ~ret

\* C4: a register_mesh that returns true leaves the count one higher when the
\* path was new and unchanged when it was registered; the path's entry is the
\* newly resolved handle and no other entry changes.
C4_RegisterSuccessCount ==
    (op = "register_mesh" /\ ret) =>
        /\ get_mesh_count(Self) =
              Count(pre.mesh_points_)
              + (IF arg.path \in DOMAIN pre.mesh_points_ THEN 0 ELSE 1)
        /\ arg.path \in DOMAIN mesh_points_
        /\ mesh_points_[arg.path] = PointsAttr(pre.stage_, arg.path)
        /\ \A p \in Paths \ {arg.path} :
              /\ (p \in DOMAIN mesh_points_) = (p \in DOMAIN pre.mesh_points_)
              /\ p \in DOMAIN mesh_points_ => mesh_points_[p] = pre.mesh_points_[p]

\* C4 witness: a successful re-registration that replaced a handle resolved on
\* another stage, with another path registered beside it.
C4_Witness ==
    /\ op = "register_mesh"
    /\ ret
    /\ arg.path \in DOMAIN pre.mesh_points_
    /\ pre.mesh_points_[arg.path] # mesh_points_[arg.path]
    /\ Count(mesh_points_) >= 2

\* C5: attach_stage(None) returns false and leaves the engine unattached:
\* is_stage_attached() is false after the call, from every prior state.
C5_NullAttachDetaches ==
    (op = "attach_stage" /\ arg.stage = None) =>
        /\ ~ret
        /\ ~is_stage_attached(Self)

\* C6: attach_stage with a stage succeeds from every state, stores that stage
\* and makes is_stage_attached() true; attaching the stage already attached
\* changes nothing, and attaching another one replaces it.
C6_AttachStoresStage ==
    (op = "attach_stage" /\ arg.stage # None) =>
        /\ ret
        /\ stage_ = arg.stage
        /\ stage_attached_
        /\ is_stage_attached(Self)
        /\ mesh_points_ = pre.mesh_points_
        /\ (pre.stage_attached_ /\ pre.stage_ = arg.stage) => Self = pre

\* C6 witness: a stage attached over a different stage, with meshes registered.
C6_Witness ==
    /\ op = "attach_stage"
    /\ arg.stage # None
    /\ pre.stage_attached_
    /\ pre.stage_ # None
    /\ pre.stage_ # arg.stage
    /\ stage_ = arg.stage
    /\ Count(mesh_points_) >= 1

\* C7: a batch update over N registered meshes with a buffer of exactly K < N
\* meshes' worth of vertices (every write accepted) returns K; the i-th mesh in
\* registration order, i <= K, receives the i-th slice and the others nothing.
C7_BatchFirstKInRegistrationOrder ==
    (/\ op = "bind_batch_update_vertices"
     /\ ~thrown
     /\ arg.vpm >= 1
     /\ env.failing = {}
     /\ \E K \in 0..(Len(regOrder) - 1) : arg.shape[1] = K * arg.vpm) =>
        LET K == arg.shape[1] \div arg.vpm IN
        /\ retCount = K
        /\ \A i \in 1..K :
              \E j \in 1..Len(writes) :
                 writes[j] = HostWrite(pre.mesh_points_[regOrder[i]],
                                       SliceOf(arg.shape[1], arg.vpm, i), "ok")
        /\ \A i \in (K + 1)..Len(regOrder) :
              \A j \in 1..Len(writes) :
                 writes[j].handle # pre.mesh_points_[regOrder[i]]

\* C8: in a batch update a write the host rejects does not end the loop: every
\* mesh whose slice fits in the buffer is written once, in iteration order,
\* nothing is written after the first slice that does not fit, and the result
\* is the number of writes the host accepted.
C8_BatchContinuesPastFailure ==
    (op = "bind_batch_update_vertices" /\ ~thrown) =>
        LET fits == {i \in 1..Len(env.order) : i * arg.vpm <= arg.shape[1]} IN
        /\ Len(writes) = Cardinality(fits)
        /\ \A i \in fits :
              writes[i] = HostWrite(pre.mesh_points_[env.order[i]],
                                    SliceOf(arg.shape[1], arg.vpm, i),
                                    IF env.order[i] \in env.failing
                                    THEN "false" ELSE "ok")
        /\ retCount = Cardinality({i \in fits : env.order[i] \notin env.failing})
        /\ mesh_points_ = pre.mesh_points_

\* C8 witness: a rejected write followed by an accepted one, of non-empty slices.
C8_Witness ==
    /\ op = "bind_batch_update_vertices"
    /\ ~thrown
    /\ arg.vpm >= 1
    /\ Len(writes) >= 2
    /\ writes[1].outcome = "false"
    /\ writes[2].outcome = "ok"
    /\ retCount = 1

\* C9: clear_meshes empties the registry (the count is 0 and
\* update_mesh_vertices fails, without a write, for every path registered
\* before) and leaves the attachment and the stored stage as they were.
C9_ClearEmptiesRegistry ==
    op = "clear_meshes" =>
        /\ get_mesh_count(Self) = 0
        /\ stage_ = pre.stage_
        /\ stage_attached_ = pre.stage_attached_
        /\ \A p \in DOMAIN pre.mesh_points_, shape \in Shapes,
              hu \in UpdateHost, hs \in SetHost :
              update_mesh_vertices(Self, p, shape, hu, hs) =
                 [ret |-> FALSE, writes |-> <<>>]

\* C9 witness: a clear of a registry holding every path, on an attached engine.
C9_Witness ==
    /\ op = "clear_meshes"
    /\ DOMAIN pre.mesh_points_ = Paths
    /\ is_stage_attached(Self)

\* C10: no public operation throws: each one returns to its caller, under
\* every host behaviour and for every argument.
C10_NoOperationThrows == ~thrown
\* C11: an engine that is not attached refuses the updates: in every state a
\* non-empty registry implies is_stage_attached(), and an update made while
\* not attached returns false without a host write, for every path.
C11_UnattachedRefusesUpdates ==
    /\ Count(mesh_points_) > 0 => is_stage_attached(Self)
    /\ (op \in {"update_mesh_vertices", "bind_update_mesh_vertices"}
        /\ ~is_stage_attached(pre)) =>
          /\ ~ret
          /\ writes = <<>>

\* C11 witness: a well-formed update, which the host would accept, made while
\* no stage is attached.
C11_Witness ==
    /\ op = "update_mesh_vertices"
    /\ ~is_stage_attached(pre)
    /\ ShapeIsNx3(arg.shape)
    /\ env.upd = "ok"
    /\ env.set = "ok"
    /\ ~ret

\* C17: an update that fails a precondition (unknown path, or an array that is
\* not N-by-3) issues no host write.
C17_FailedPreconditionWritesNothing ==
    (/\ op \in {"update_mesh_vertices", "bind_update_mesh_vertices"}
     /\ \/ arg.path \notin DOMAIN pre.mesh_points_
        \/ ~ShapeIsNx3(arg.shape)) =>
        /\ ~ret
        /\ writes = <<>>

\* C17 witness: a wrong-shaped array for a registered path, on a host that
\* would have accepted the write.
C17_Witness ==
    /\ op = "update_mesh_vertices"
    /\ arg.path \in DOMAIN pre.mesh_points_
    /\ ~ShapeIsNx3(arg.shape)
    /\ env.upd = "ok"
    /\ env.set = "ok"
    /\ ~ret

\* C18: every handle in the registry was resolved on the stage now attached,
\* and no update writes through a handle of another stage.
C18_HandlesOfAttachedStage ==
    /\ \A p \in DOMAIN mesh_points_ : mesh_points_[p] = PointsAttr(stage_, p)
    /\ op \in {"update_mesh_vertices", "bind_update_mesh_vertices"} =>
          \A i \in 1..Len(writes) : writes[i].handle[1] = pre.stage_
\* ------------------------------------------------------ claims on the kernel
KernelOps == {"compute_tube_vertices", "batch_compute_vertices"}

\* The vertices the last kernel call was asked to process.
KVerts == kin.num_tubes * kin.verts_per_tube

\* The output the formula of the design gives for the vertex (x, y, z).
RefVertex(x, y, z, P) ==
    LET phase == FAdd(FMul(y, P.frequency), FMul(P.time, P.wave_speed))
        scale == FAdd(1, FMul(P.amplitude, FSin(phase)))
    IN <<FMul(x, scale), y, FMul(z, scale)>>

\* C12: total_calls is the number of kernel calls made since the last reset
\* and total_vertices the sum of the vertex counts they processed; right after
\* reset_stats both are 0.
C12_CountersEqualHistory ==
    /\ total_calls_ = sinceCalls
    /\ total_vertices_ = sinceVerts
    /\ op = "reset_stats" => (total_calls_ = 0 /\ total_vertices_ = 0)

\* C13: in every step other than reset_stats, total_calls and total_vertices
\* do not decrease.
C13_CountersMonotonic ==
    op # "reset_stats" =>
        /\ total_calls_ >= pre.total_calls_
        /\ total_vertices_ >= pre.total_vertices_

\* C14: batch_compute_vertices writes what compute_tube_vertices writes, run
\* once over all the vertices and run on each tube's slice alone; it writes
\* nothing past the last vertex and returns num_tubes * verts_per_tube.
C14_BatchEqualsSingle ==
    op = "batch_compute_vertices" =>
        LET n == KVerts
            v == kin.verts_per_tube
        IN
        /\ kout = compute_tube_vertices(pre, kin.base, Blank(n), n, kin.P, 0).out
        /\ \A t \in 0..(kin.num_tubes - 1) :
              LET one == compute_tube_vertices(
                             pre, SubSeq(kin.base, 3 * v * t + 1, 3 * v * (t + 1)),
                             Blank(v), v, kin.P, 0).out
              IN \A k \in 1..(3 * v) : kout[3 * v * t + k] = one[k]
        /\ Len(kout) = 3 * n + 3
        /\ \A k \in (3 * n + 1)..Len(kout) : kout[k] = Unwritten
        /\ retCount = n

\* C14 witness: two tubes of two vertices, deformed.
C14_Witness ==
    /\ op = "batch_compute_vertices"
    /\ kin.num_tubes = 2
    /\ kin.verts_per_tube = 2
    /\ \E k \in 1..Len(kin.base) : kout[k] # kin.base[k]
    /\ \A k \in 1..Len(kin.base) : kout[k] # NaN

\* C15: both kernels leave the y of every vertex as it was and write each
\* output vertex from the input vertex at the same index, for as many vertices
\* as the input holds.
C15_YUnchanged ==
    op \in KernelOps =>
        /\ Len(kin.base) = 3 * KVerts
        /\ Len(kout) = 3 * KVerts + 3
        /\ \A i \in 0..(KVerts - 1) :
              /\ kout[3 * i + 2] = kin.base[3 * i + 2]
              /\ <<kout[3 * i + 1], kout[3 * i + 2], kout[3 * i + 3]>> =
                    RefVertex(kin.base[3 * i + 1], kin.base[3 * i + 2],
                              kin.base[3 * i + 3], kin.P)
        /\ \A k \in (3 * KVerts + 1)..Len(kout) : kout[k] = Unwritten

\* C15 witness: a single-buffer call whose x and z were scaled.
C15_Witness ==
    /\ op = "compute_tube_vertices"
    /\ KVerts >= 2
    /\ kout[1] # kin.base[1]
    /\ kout[4] # kin.base[4]
    /\ kout[2] = kin.base[2]
    /\ kout[5] # kout[2]

\* C16: with amplitude 0 both kernels return the input, element for element,
\* for every time, wave_speed and frequency.
C16_ZeroAmplitudeIdentity ==
    (op \in KernelOps /\ kin.P.amplitude = 0) =>
        \A k \in 1..Len(kin.base) : kout[k] = kin.base[k]

\* C19: the registry operations leave the three counters as they were, whether
\* they succeed or fail, and the kernel calls, get_stats and reset_stats leave
\* the attachment, the stored stage and every registry entry as they were.
C19_RegistryAndCountersIndependent ==
    /\ op \in {"attach_stage", "register_mesh", "update_mesh_vertices",
               "get_mesh_count", "is_stage_attached"} =>
          /\ total_calls_ = pre.total_calls_
          /\ total_vertices_ = pre.total_vertices_
          /\ total_time_ms_ = pre.total_time_ms_
    /\ op \in KernelOps \cup {"get_stats", "reset_stats"} =>
          /\ stage_ = pre.stage_
          /\ stage_attached_ = pre.stage_attached_
          /\ mesh_points_ = pre.mesh_points_

\* C19 witness: a reset of counters that were not zero, on an attached engine
\* with a mesh registered.
C19_Witness ==
    /\ op = "reset_stats"
    /\ pre.total_calls_ > 0
    /\ pre.total_vertices_ > 0
    /\ pre.total_time_ms_ > 0
    /\ pre.stage_attached_
    /\ Count(pre.mesh_points_) >= 1
====
